---- MODULE Spec2Model ----
(***************************************************************************)
(* Model of the workflow executor (src/api/workflow/executor.py): the      *)
(* workflow store with its two backends, credential injection,             *)
(* execute_workflow and the sandboxed run of the generated source under    *)
(* asyncio.wait_for, with the process-wide sys.stdout / sys.stderr that    *)
(* redirect_stdout / redirect_stderr swap, and a cancellation of the call  *)
(* from outside; of the code validator and the retry loop of               *)
(* generate_workflow (src/api/workflow/generator.py); and of the endpoint  *)
(* POST /workflows/{id}/execute (src/api/main.py).                         *)
(*                                                                         *)
(* Text is a sequence of tokens (strings); "a" + "b" is <<"a">> \o <<"b">>.*)
(* An optional value is a record: None, or Some(v).                        *)
(*                                                                         *)
(* The asyncio event loop is single threaded: an action is one stretch of  *)
(* a coroutine between two suspension points.  A synchronous stretch that  *)
(* takes time advances the clock inside the action, and a stretch that     *)
(* never ends ("spin") blocks the loop for every task.                     *)
(* asyncio.CancelledError derives from BaseException (Python 3.8 and       *)
(* later), so "except Exception" does not catch a cancellation.            *)
(***************************************************************************)
EXTENDS Naturals, Sequences, FiniteSets

\* ------------------------------------------------------------------ bounds
\* Number of execute_workflow calls made in one behaviour.
MaxCalls == 2
\* The elapsed time of a call saturates here (in clock ticks).
MaxElapsed == 2

\* settings.max_execution_time, in clock ticks (one tick is 1800 s).
max_execution_time == 1

None == [some |-> FALSE]
Some(v) == [some |-> TRUE, v |-> v]

CallIds == 1..MaxCalls
WorkflowIds == {"w1"}
WorkflowStatus == {"created", "generating", "ready", "failed"}

Min(a, b) == IF a < b THEN a ELSE b

\* text contains sub as a contiguous run of tokens
Contains(text, sub) ==
  \E i \in 0..Len(text) :
    i + Len(sub) <= Len(text) /\ SubSeq(text, i + 1, i + Len(sub)) = sub

\* ------------------------------------------------------ settings and text
\* The configured values (config.py): each is a text without quote, backslash
\* or newline.
lighton_api_key == <<"lo-secret">>
anthropic_api_key == <<"sk-ant-secret">>
lighton_base_url == <<"https://paradigm.lighton.ai">>

\* Tokens of source text: the opening of an assignment of a double-quoted
\* literal to a constant, the closing double quote, a single quote (which
\* opens and closes a literal that may hold double quotes), the start of a
\* comment, and the end of a line.
Assign(name) ==
  CASE name = "LIGHTON_API_KEY" -> "LIGHTON_API_KEY = \""
    [] name = "ANTHROPIC_API_KEY" -> "ANTHROPIC_API_KEY = \""
    [] name = "LIGHTON_BASE_URL" -> "LIGHTON_BASE_URL = \""
DQ == "\""
SQ == "'"
Hash == "#"
NL == "\n"

\* The placeholder assignments _inject_api_keys looks for, and what it puts
\* in their place.
Placeholder(name) ==
  CASE name = "LIGHTON_API_KEY" -> <<"your_api_key_here">>
    [] name = "ANTHROPIC_API_KEY" -> <<"your_anthropic_api_key_here">>
    [] name = "LIGHTON_BASE_URL" -> <<"https://api.lighton.ai">>

Configured(name) ==
  CASE name = "LIGHTON_API_KEY" -> lighton_api_key
    [] name = "ANTHROPIC_API_KEY" -> anthropic_api_key
    [] name = "LIGHTON_BASE_URL" -> lighton_base_url

ConstantNames == {"LIGHTON_API_KEY", "ANTHROPIC_API_KEY", "LIGHTON_BASE_URL"}

Assignment(name, value) == <<Assign(name)>> \o value \o <<DQ>>

\* str.replace(old, new): every occurrence of old, left to right, without
\* overlap.
RECURSIVE Replace(_, _, _)
Replace(text, old, new) ==
  IF Len(text) < Len(old) THEN text
  ELSE IF SubSeq(text, 1, Len(old)) = old
    THEN new \o Replace(SubSeq(text, Len(old) + 1, Len(text)), old, new)
    ELSE <<Head(text)>> \o Replace(Tail(text), old, new)

\* _inject_api_keys: three replacements, one after the other.
InjectApiKeys(code) ==
  LET c1 == Replace(code, Assignment("LIGHTON_API_KEY", Placeholder("LIGHTON_API_KEY")),
                    Assignment("LIGHTON_API_KEY", lighton_api_key))
      c2 == Replace(c1, Assignment("ANTHROPIC_API_KEY", Placeholder("ANTHROPIC_API_KEY")),
                    Assignment("ANTHROPIC_API_KEY", anthropic_api_key))
  IN Replace(c2, Assignment("LIGHTON_BASE_URL", Placeholder("LIGHTON_BASE_URL")),
             Assignment("LIGHTON_BASE_URL", lighton_base_url))

\* The lines of a text (each without its end-of-line token).
RECURSIVE Lines(_, _)
Lines(text, line) ==
  IF text = <<>> THEN (IF line = <<>> THEN <<>> ELSE <<line>>)
  ELSE IF Head(text) = NL THEN <<line>> \o Lines(Tail(text), <<>>)
  ELSE Lines(Tail(text), Append(line, Head(text)))

\* A line that is the statement NAME = "literal": it opens with the
\* assignment token and its literal ends at the first double quote.
IsAssignment(line) ==
  /\ Len(line) >= 2
  /\ \E name \in ConstantNames : line[1] = Assign(name)
  /\ \E i \in 2..Len(line) : line[i] = DQ

\* The literal of such a line.
LiteralOf(line) ==
  LET close == CHOOSE i \in 2..Len(line) :
                 line[i] = DQ /\ \A j \in 2..(i - 1) : line[j] # DQ
  IN SubSeq(line, 2, close - 1)

\* What exec() of the top-level assignments binds: for each constant the
\* literal of its last assignment statement.  A line that opens with a single
\* quote (a string literal statement) or a hash (a comment) binds nothing.
Constants(code) ==
  LET ls == Lines(code, <<>>)
      assigned(name) == {i \in 1..Len(ls) : IsAssignment(ls[i]) /\ ls[i][1] = Assign(name)}
      last(name) == CHOOSE i \in assigned(name) : \A j \in assigned(name) : j <= i
  IN [name \in {n \in ConstantNames : assigned(n) # {}} |-> LiteralOf(ls[last(name)])]

\* ------------------------------------------------- generated source (input)
\* A workflow source is given by what it does when compiled and run:
\*   syntax_ok  compile() accepts it
\*   top        statements of the module top level
\*   defines    the top level binds the name execute_workflow
\*   body       statements of execute_workflow
\* Statements: emit (print to sys.stdout / sys.stderr), work (synchronous
\* computation taking d ticks), read (a global name), await (a suspension
\* that completes), sleep (a suspension that does not complete on its own),
\* spin (a synchronous infinite loop), return, raise.  The text of a source
\* (SourceText) is its constants section followed by its name.
Emit(s, t) == [op |-> "emit", stream |-> s, text |-> t]
Work(d) == [op |-> "work", d |-> d]
Read(n) == [op |-> "read", name |-> n]
Await == [op |-> "await"]
Sleep == [op |-> "sleep"]
Spin == [op |-> "spin"]
Return(v) == [op |-> "return", val |-> v]
Raise(k, m) == [op |-> "raise", kind |-> k, msg |-> m]
\* raise k(str(v)) for a value v, and asyncio.create_task of a coroutine
\* that nobody awaits.
RaiseStr(k, v) == [op |-> "raise_str", kind |-> k, val |-> v]
Spawn == [op |-> "spawn"]
\* A synchronous loop that is entered only when the global n is bound.
SpinIf(n) == [op |-> "spin_if", name |-> n]

Source(name) ==
  CASE name = "bad_syntax" ->
         [syntax_ok |-> FALSE, top |-> <<>>, defines |-> FALSE, body |-> <<>>]
    [] name = "top_raises" ->
         [syntax_ok |-> TRUE, top |-> <<Raise("Exception", <<"import failed">>)>>,
          defines |-> TRUE, body |-> <<Return("echo")>>]
    [] name = "no_entry" ->
         [syntax_ok |-> TRUE, top |-> <<Emit("err", "warn")>>, defines |-> FALSE,
          body |-> <<>>]
    [] name = "echo" ->
         [syntax_ok |-> TRUE, top |-> <<>>, defines |-> TRUE,
          body |-> <<Emit("out", "a"), Await, Emit("out", "b"), Return("echo")>>]
    [] name = "boom" ->
         [syntax_ok |-> TRUE, top |-> <<>>, defines |-> TRUE,
          body |-> <<Emit("err", "trace"), Raise("Exception", <<"boom">>)>>]
    [] name = "inner_timeout" ->
         [syntax_ok |-> TRUE, top |-> <<>>, defines |-> TRUE,
          body |-> <<Raise("TimeoutError", <<"inner">>)>>]
    [] name = "cancelled" ->
         [syntax_ok |-> TRUE, top |-> <<>>, defines |-> TRUE,
          body |-> <<Raise("CancelledError", <<>>)>>]
    [] name = "sleep" ->
         [syntax_ok |-> TRUE, top |-> <<>>, defines |-> TRUE,
          body |-> <<Sleep, Return("never")>>]
    [] name = "spin" ->
         [syntax_ok |-> TRUE, top |-> <<>>, defines |-> TRUE, body |-> <<Spin>>]
    [] name = "slow" ->
         [syntax_ok |-> TRUE, top |-> <<>>, defines |-> TRUE,
          body |-> <<Work(max_execution_time + 1), Return("late")>>]
    [] name = "files" ->
         [syntax_ok |-> TRUE, top |-> <<>>, defines |-> TRUE,
          body |-> <<Read("attached_file_ids"), Read("ATTACHED_FILES")>>]
    [] name = "leak_return" ->
         [syntax_ok |-> TRUE, top |-> <<>>, defines |-> TRUE, body |-> <<Return("key")>>]
    [] name = "leak_raise" ->
         [syntax_ok |-> TRUE, top |-> <<>>, defines |-> TRUE,
          body |-> <<RaiseStr("Exception", "key")>>]
    [] name = "doc" ->
         [syntax_ok |-> TRUE, top |-> <<>>, defines |-> TRUE, body |-> <<Return("echo")>>]
    [] name = "spawn" ->
         [syntax_ok |-> TRUE, top |-> <<>>, defines |-> TRUE,
          body |-> <<Spawn, Sleep, Return("never")>>]
    [] name = "branch" ->
         [syntax_ok |-> TRUE, top |-> <<>>, defines |-> TRUE,
          body |-> <<Await, SpinIf("attached_file_ids"), Return("echo")>>]

Sources ==
  {"bad_syntax", "top_raises", "no_entry", "echo", "boom", "inner_timeout",
   "cancelled", "sleep", "spin", "slow", "files", "leak_return", "leak_raise",
   "doc", "spawn", "branch"}

\* The text of a source: its constants section, then one token that stands
\* for the rest of the program (the Source of that name).  The source "doc"
\* opens with a string literal that shows the placeholder assignment, has a
\* comment that names the placeholder value, and assigns all three constants.
Header(name) ==
  IF name = "doc"
    THEN <<SQ>> \o Assignment("LIGHTON_API_KEY", Placeholder("LIGHTON_API_KEY"))
           \o <<SQ, NL, Hash>> \o Placeholder("LIGHTON_API_KEY") \o <<NL>>
           \o Assignment("LIGHTON_API_KEY", Placeholder("LIGHTON_API_KEY")) \o <<NL>>
           \o Assignment("ANTHROPIC_API_KEY", Placeholder("ANTHROPIC_API_KEY")) \o <<NL>>
           \o Assignment("LIGHTON_BASE_URL", Placeholder("LIGHTON_BASE_URL")) \o <<NL>>
    ELSE Assignment("LIGHTON_API_KEY", Placeholder("LIGHTON_API_KEY")) \o <<NL>>
           \o Assignment("LIGHTON_BASE_URL", Placeholder("LIGHTON_BASE_URL")) \o <<NL>>

SourceText(name) == Header(name) \o <<name>>

\* The program a text holds: the name in its last token.
ProgramOf(code) == code[Len(code)]

UserInputs == {<<"42">>}
FileLists == {None, Some(<<>>), Some(<<7, 9>>)}

\* ------------------------------------------------------------ pure helpers
\* Exception classes raised in the model; str(e) is e.msg.  CancelledError
\* derives from BaseException only, every other kind derives from Exception.
\* Variant: a handler that catches Exception and TimeoutError objects only.
IsException_Narrow(kind) == kind \in {"Exception", "TimeoutError"}

IsException(kind) == kind # "CancelledError"

Exc(kind, msg) == [kind |-> kind, msg |-> msg]

\* Value of a return expression of the generated source.
Eval(val, user_input, globals) ==
  CASE val = "echo" -> Some(<<"ok:">> \o user_input)
    [] val = "key" /\ "LIGHTON_API_KEY" \in DOMAIN globals -> Some(globals.LIGHTON_API_KEY)
    [] val = "never" -> Some(<<"never">>)
    [] val = "late" -> Some(<<"late">>)
    [] OTHER -> None

\* Variant: str(result) without the test for None.
ResultText_StrOfNone(result) == IF result.some THEN result.v ELSE <<"None">>

\* return str(result) if result is not None else ""
ResultText(result) == IF result.some THEN result.v ELSE <<>>

\* Variant: only the name attached_file_ids is bound.
CreateExecutionEnvironment_OneName(attached_file_ids) ==
  IF attached_file_ids.some /\ Len(attached_file_ids.v) > 0
    THEN [attached_file_ids |-> attached_file_ids.v]
    ELSE <<>>

\* The attached-file bindings of the globals dict built for one run (the
\* __builtins__ allow-list binds no name the modelled sources read).
CreateExecutionEnvironment(attached_file_ids) ==
  IF attached_file_ids.some /\ Len(attached_file_ids.v) > 0
    THEN [attached_file_ids |-> attached_file_ids.v,
          ATTACHED_FILES |-> attached_file_ids.v]
    ELSE <<>>

\* execution_globals once exec(compiled_code, execution_globals) has run the
\* top level: the names of the environment and the constants the code assigns.
Globals(env, code) ==
  LET consts == Constants(code)
  IN [n \in DOMAIN env \cup DOMAIN consts |->
        IF n \in DOMAIN consts THEN consts[n] ELSE env[n]]

\* Variant: no lookup before execution_globals['execute_workflow'] is used.
HasEntryPoint_Assumed(src) == TRUE

\* 'execute_workflow' in execution_globals, once the top level has run
HasEntryPoint(src) == src.defines

\* The statements exec(compiled_code) and the entry point call run, in order:
\* the top level, the lookup of execute_workflow, then its body.
Compiled(src) == src.top \o <<[op |-> "entry"]>> \o src.body

EntryNotFoundMsg == <<"execute_workflow function not found in generated code">>

\* One synchronous stretch of the run: executes statements until the run
\* suspends (await, sleep), blocks (spin), returns or raises.  acc collects
\* what the stretch wrote, the time it took and the globals it read.
RECURSIVE RunOps(_, _, _, _, _)
RunOps(ops, src, env, user_input, acc) ==
  IF ops = <<>>
    THEN [acc EXCEPT !.stop = "return", !.val = None]
    ELSE
      LET o == Head(ops)
          next == Tail(ops)
      IN CASE o.op = "emit" ->
                RunOps(next, src, env, user_input,
                       IF o.stream = "out"
                         THEN [acc EXCEPT !.out = Append(@, o.text)]
                         ELSE [acc EXCEPT !.err = Append(@, o.text)])
           [] o.op = "work" ->
                RunOps(next, src, env, user_input, [acc EXCEPT !.dt = @ + o.d])
           [] o.op = "read" ->
                IF o.name \in DOMAIN env
                  THEN RunOps(next, src, env, user_input,
                              [acc EXCEPT !.obs = Append(@, <<o.name, env[o.name]>>)])
                  ELSE [acc EXCEPT !.stop = "raise",
                          !.exc = Exc("NameError", <<"name '", o.name, "' is not defined">>)]
           [] o.op = "entry" ->
                IF HasEntryPoint(src)
                  THEN RunOps(next, src, env, user_input, acc)
                  ELSE [acc EXCEPT !.stop = "raise",
                          !.exc = Exc("Exception", EntryNotFoundMsg)]
           [] o.op = "await" -> [acc EXCEPT !.stop = "await", !.rest = next]
           [] o.op = "sleep" -> [acc EXCEPT !.stop = "sleep", !.rest = next]
           [] o.op = "spin" -> [acc EXCEPT !.stop = "spin", !.rest = ops]
           [] o.op = "spin_if" ->
                IF o.name \in DOMAIN env
                  THEN [acc EXCEPT !.stop = "spin", !.rest = ops]
                  ELSE RunOps(next, src, env, user_input, acc)
           [] o.op = "return" ->
                [acc EXCEPT !.stop = "return", !.val = Eval(o.val, user_input, env)]
           [] o.op = "raise" ->
                [acc EXCEPT !.stop = "raise", !.exc = Exc(o.kind, o.msg)]
           [] o.op = "raise_str" ->
                [acc EXCEPT !.stop = "raise",
                   !.exc = Exc(o.kind, ResultText(Eval(o.val, user_input, env)))]
           [] o.op = "spawn" ->
                RunOps(next, src, env, user_input, [acc EXCEPT !.spawned = TRUE])

EmptyAcc ==
  [stop |-> "none", rest |-> <<>>, out |-> <<>>, err |-> <<>>, dt |-> 0,
   obs |-> <<>>, val |-> None, exc |-> Exc("Exception", <<>>), spawned |-> FALSE]

\* except Exception as e (in _run_code_with_capture): the captured stderr is
\* appended to the message when there is any; other errors pass through.
RunCodeError(e, stderr_content) ==
  IF IsException(e.kind) /\ stderr_content # <<>>
    THEN Exc("Exception", e.msg \o <<". Stderr: ">> \o stderr_content)
    ELSE e

\* The two handlers of _execute_code_safely.
ExecuteCodeSafelyError(e) ==
  CASE e.kind = "TimeoutError" ->
         Exc("TimeoutError",
             <<"Workflow execution exceeded ", "max_execution_time", " seconds">>)
    [] IsException(e.kind) /\ e.kind # "TimeoutError" ->
         Exc("Exception", <<"Workflow execution failed: ">> \o e.msg)
    [] OTHER -> e

\* Variant: the record is constructed without status=RUNNING.
NewExecution_NotRunning(workflow_id, user_input) ==
  [workflow_id |-> workflow_id, user_input |-> user_input, status |-> "pending",
   result |-> None, error |-> None, execution_time |-> None]

\* WorkflowExecution(workflow_id, user_input, status=RUNNING)
NewExecution(workflow_id, user_input) ==
  [workflow_id |-> workflow_id, user_input |-> user_input, status |-> "running",
   result |-> None, error |-> None, execution_time |-> None]

\* WorkflowExecution.mark_completed(result, execution_time)
MarkCompleted(execution, result, execution_time) ==
  [execution EXCEPT !.status = "completed", !.result = Some(result),
                    !.execution_time = Some(execution_time)]

\* WorkflowExecution.mark_failed(error, execution_time): records the message
\* and the time; a running record becomes failed, a record already given the
\* timeout status keeps it.
MarkFailed(execution, error, execution_time) ==
  [execution EXCEPT !.status = IF @ = "running" THEN "failed" ELSE @,
                    !.error = Some(error),
                    !.execution_time = Some(execution_time)]

TimeoutMsg == <<"Execution timeout">>

\* Variant: the generic handler stores the message without mark_failed.
ExecuteWorkflowError_ErrorOnly(execution, e, execution_time) ==
  IF e.kind = "TimeoutError"
    THEN MarkFailed([execution EXCEPT !.status = "timeout"], TimeoutMsg, execution_time)
    ELSE [execution EXCEPT !.error = Some(e.msg), !.execution_time = Some(execution_time)]

\* The two handlers of execute_workflow (e derives from Exception).
ExecuteWorkflowError(execution, e, execution_time) ==
  IF e.kind = "TimeoutError"
    THEN MarkFailed([execution EXCEPT !.status = "timeout"], TimeoutMsg, execution_time)
    ELSE MarkFailed(execution, e.msg, execution_time)

\* ------------------------------------------------ workflow records, JSON
\* datetime: the text up to the seconds and the microseconds (six digits).
DateTimes ==
  {[s |-> "2024-05-01T10:00:00", us |-> "000000"],
   [s |-> "2024-05-01T10:00:01", us |-> "000250"]}

\* datetime.isoformat(): the microseconds are written only when not zero.
Isoformat(dt) == IF dt.us = "000000" THEN <<dt.s>> ELSE <<dt.s, ".", dt.us>>

\* The datetime an ISO text stands for.
FromIsoformat(text) ==
  IF Len(text) = 1 THEN [s |-> text[1], us |-> "000000"]
  ELSE [s |-> text[1], us |-> text[3]]

\* The order of the keys of workflow_dict.
WorkflowKeys ==
  <<"id", "name", "description", "generated_code", "status", "created_at",
    "updated_at", "error", "context">>

\* Variant: the dict is written without the timestamps.
WorkflowDict_NoTimestamps(workflow) ==
  [workflow EXCEPT !.created_at = None, !.updated_at = None]

\* workflow_dict of store_workflow: the fields as they are, the two
\* timestamps as ISO text (None when not set).
WorkflowDict(workflow) ==
  [workflow EXCEPT
     !.created_at = IF @.some THEN Some(Isoformat(@.v)) ELSE None,
     !.updated_at = IF @.some THEN Some(Isoformat(@.v)) ELSE None]

\* json.dumps of a dict: its members, as <<key, value>>, in the order of the
\* keys; json.loads builds the dict back from the members.
JsonDumps(dict) == [i \in 1..Len(WorkflowKeys) |-> <<WorkflowKeys[i], dict[WorkflowKeys[i]]>>]

JsonLoads(data) ==
  [k \in {data[i][1] : i \in 1..Len(data)} |->
     LET i == CHOOSE j \in 1..Len(data) : data[j][1] = k IN data[i][2]]

\* Workflow(**workflow_dict): the fields as given, the two timestamps read
\* back from their ISO text.
WorkflowFromDict(dict) ==
  [dict EXCEPT
     !.created_at = IF @.some THEN Some(FromIsoformat(@.v)) ELSE None,
     !.updated_at = IF @.some THEN Some(FromIsoformat(@.v)) ELSE None]

\* A Workflow as generate_workflow hands it to store_workflow.
NewWorkflow(id, status, code) ==
  [id |-> id, name |-> None, description |-> <<"describe">>, generated_code |-> code,
   status |-> status, context |-> None,
   created_at |-> Some([s |-> "2024-05-01T10:00:00", us |-> "000000"]),
   updated_at |-> Some([s |-> "2024-05-01T10:00:01", us |-> "000250"]),
   error |-> None]

\* -------------------------------------------------------------------- state
VARIABLES
  use_redis,       \* self.use_redis: the durable cache is the backend
  workflows,       \* self.workflows: workflow id -> None | Some(Workflow)
  redis,           \* the cache: key of a workflow id -> None | Some(JSON data)
  stored,          \* history: workflow id -> the Workflow last stored under it
  history,         \* history: per workflow id, how often it was stored (two
                   \*   stands for twice or more) and whether its cache
                   \*   record has expired since
  executions,      \* self.executions: execution id -> WorkflowExecution
  task,            \* per call: the coroutine of execute_workflow
  ret,             \* per call: what the caller got (pending until then)
  sys_stdout,      \* sys.stdout: None (the process's stream) | Some(id), the
  sys_stderr,      \*   stdout_capture / stderr_capture of run id
  stdout_capture,  \* per call: the io.StringIO buffers, a sequence of
  stderr_capture,  \*   <<writer, text>>
  real_stdout,     \* what reached the process's own streams
  real_stderr,
  validation,      \* one call of _validate_code: its argument and its verdict
  generation,      \* one call of generate_workflow: its loop and its Workflow
  http,            \* one request POST /workflows/{id}/execute in the endpoint
  held             \* workflow id -> the Workflow object its caller passed to
                   \*   store_workflow, as the caller has it now

vars ==
  <<use_redis, workflows, redis, stored, history, executions, task, ret,
    sys_stdout, sys_stderr, stdout_capture, stderr_capture, real_stdout,
    real_stderr, validation,
                 generation, http, held>>

\* pc: idle (not called yet), awaiting / sleeping (suspended inside the entry
\* point), spinning (inside a synchronous loop: the event loop is blocked),
\* returned, raised.  code is the program compiled, text the generated_code the
\* call was given and injected the local copy after _inject_api_keys.  env is
\* the dict _create_execution_environment returned and globals the same dict
\* once exec() has run the top level of the code.  child
\* is the task the entry point created and left alone (none, running, done).
\* elapsed is time.time() - start_time.  wf_status, written,
\* obs, ended and late record history for the properties: the status of the
\* workflow the call found, what the run wrote, the globals it read, how the
\* run ended (no: not yet; return with a value; raise with an error;
\* deadline; cancel), and
\* whether the budget had elapsed before the entry point finished.
IdleTask ==
  [pc |-> "idle", code |-> "", text |-> <<>>, injected |-> <<>>, rest |-> <<>>,
   env |-> <<>>, globals |-> <<>>, user_input |-> <<>>,
   files |-> None, old_stdout |-> None, old_stderr |-> None, elapsed |-> 0,
   wf_status |-> None, written |-> <<>>, obs |-> <<>>, ended |-> [how |-> "no"],
   late |-> FALSE, child |-> "none"]

NoValidation == [code |-> <<>>, verdict |-> [valid |-> FALSE, error |-> "none"]]

\* The executor after construction, with no call made.
ExecutorInit ==
  /\ use_redis \in BOOLEAN
  /\ workflows = [w \in WorkflowIds |-> None]
  /\ redis = [w \in WorkflowIds |-> None]
  /\ stored = [w \in WorkflowIds |-> None]
  /\ held = [w \in WorkflowIds |-> None]
  /\ history = [w \in WorkflowIds |-> [stores |-> 0, expired |-> FALSE]]
  /\ executions = <<>>
  /\ task = [c \in CallIds |-> IdleTask]
  /\ ret = [c \in CallIds |-> [kind |-> "pending"]]
  /\ sys_stdout = None
  /\ sys_stderr = None
  /\ stdout_capture = [c \in CallIds |-> <<>>]
  /\ stderr_capture = [c \in CallIds |-> <<>>]
  /\ real_stdout = <<>>
  /\ real_stderr = <<>>

\* No call of generate_workflow made, no request received.
NoGeneration ==
  [pc |-> "idle", attempt |-> 0, context |-> None, last_error |-> None,
   workflow |-> None, raised |-> None, log |-> <<>>]

NoRequest ==
  [pc |-> "idle", files |-> None, key |-> <<>>, elapsed_time |-> 0, all_ready |-> FALSE,
   executor_called |-> FALSE, response |-> None]

Init ==
  /\ ExecutorInit
  /\ validation = NoValidation
  /\ generation = NoGeneration
  /\ http = NoRequest

InFlight(c) == task[c].pc \in {"awaiting", "sleeping", "spinning"}

\* The event loop runs callbacks only while no task is inside a synchronous
\* stretch that never ends.
LoopFree == \A c \in CallIds : task[c].pc # "spinning"

Text(buffer) == [i \in 1..Len(buffer) |-> buffer[i][2]]

Tagged(c, texts) == [i \in 1..Len(texts) |-> <<c, texts[i]>>]

\* ------------------------------------------------------------------ store
\* store_workflow: the cache backend writes the JSON data under the key of
\* the id (with its time to live), the in-memory backend binds the id to the
\* Workflow.
StoreWorkflow(workflow) ==
  /\ LoopFree
  /\ IF use_redis
       THEN /\ redis' = [redis EXCEPT ![workflow.id] = Some(JsonDumps(WorkflowDict(workflow)))]
            /\ UNCHANGED workflows
       ELSE /\ workflows' = [workflows EXCEPT ![workflow.id] = Some(workflow)]
            /\ UNCHANGED redis
  /\ stored' = [stored EXCEPT ![workflow.id] = Some(workflow)]
  /\ held' = [held EXCEPT ![workflow.id] = Some(workflow)]
  /\ history' = [history EXCEPT ![workflow.id] =
                    [stores |-> Min(@.stores + 1, 2), expired |-> FALSE]]
  /\ UNCHANGED <<use_redis, executions, task, ret, sys_stdout, sys_stderr,
                 stdout_capture, stderr_capture, real_stdout, real_stderr, validation,
                 generation, http>>

\* POST /workflows (main.py, create_workflow): generate_workflow makes a
\* Workflow with an id of its own, and the endpoint stores it.
CreateWorkflow(workflow) ==
  /\ ~stored[workflow.id].some
  /\ StoreWorkflow(workflow)

\* The time to live of a cache record (86400 s) runs out.
Expire(w) ==
  /\ LoopFree
  /\ use_redis
  /\ redis[w].some
  /\ redis' = [redis EXCEPT ![w] = None]
  /\ history' = [history EXCEPT ![w].expired = TRUE]
  /\ UNCHANGED <<use_redis, workflows, stored, executions, task, ret, sys_stdout,
                 sys_stderr, stdout_capture, stderr_capture, real_stdout,
                 real_stderr, validation,
                 generation, http, held>>

\* Variant: the in-memory lookup by subscript, which raises for a missing id.
GetWorkflow_Subscript(w) ==
  IF use_redis
    THEN (IF redis[w].some THEN Some(WorkflowFromDict(JsonLoads(redis[w].v))) ELSE None)
    ELSE (IF workflows[w].some THEN workflows[w] ELSE [some |-> FALSE, raised |-> "KeyError"])

\* get_workflow: the cache backend parses the data under the key into a
\* Workflow, or returns None when there is none; the in-memory backend is
\* self.workflows.get(workflow_id).
GetWorkflow(w) ==
  IF use_redis
    THEN (IF redis[w].some THEN Some(WorkflowFromDict(JsonLoads(redis[w].v))) ELSE None)
    ELSE workflows[w]

\* GET /workflows/{workflow_id} (main.py, get_workflow)
GetWorkflowEndpoint(w) ==
  LET workflow == GetWorkflow(w)
  IN IF ~workflow.some THEN [status_code |-> 404]
     ELSE [status_code |-> 200, id |-> workflow.v.id]

\* Variant: the lookup goes to the cache when that is the backend.
GetExecution_Cache(id) ==
  IF use_redis THEN None
  ELSE IF id \in DOMAIN executions THEN Some(executions[id]) ELSE None

\* get_execution: self.executions.get(execution_id)
GetExecution(id) == IF id \in DOMAIN executions THEN Some(executions[id]) ELSE None

PutExecution(map, id, execution) ==
  [x \in DOMAIN map \cup {id} |-> IF x = id THEN execution ELSE map[x]]

\* POST /workflows/{workflow_id}/execute (main.py, execute_workflow), given
\* what the executor's execute_workflow returned or raised (r): the Execution
\* is serialised, a ValueError becomes 400 and any other Exception 500.
ExecuteEndpoint(r) ==
  CASE r.kind = "Execution" -> [status_code |-> 200, execution_id |-> r.id]
    [] r.kind = "ValueError" -> [status_code |-> 400]
    [] OTHER -> [status_code |-> 500]

\* -------------------------------------------------------------- execution
\* Time d passes for every suspended call and for the running call c.
AddTime(tasks, c, d) ==
  [x \in CallIds |->
     IF x = c \/ tasks[x].pc \in {"awaiting", "sleeping"}
       THEN [tasks[x] EXCEPT !.elapsed = Min(@ + d, MaxElapsed)]
       ELSE tasks[x]]

\* One stretch r of run c (tk: its task at the start of the stretch, exs: the
\* executions map then), written while sys.stdout / sys.stderr are so / se.  A stretch that ends the run
\* leaves the two with-blocks (each restores the stream it saved), then goes
\* through the handlers of _run_code_with_capture, _execute_code_safely and
\* execute_workflow.
Stretch(c, tk, so, se, exs, r) ==
  LET outs == Tagged(c, r.out)
      errs == Tagged(c, r.err)
      cap_out == IF so.some THEN [stdout_capture EXCEPT ![so.v] = @ \o outs]
                 ELSE stdout_capture
      cap_err == IF se.some THEN [stderr_capture EXCEPT ![se.v] = @ \o errs]
                 ELSE stderr_capture
      t == Min(tk.elapsed + r.dt, MaxElapsed)
      tk1 == [tk EXCEPT !.written = @ \o [i \in 1..Len(r.out) |-> <<"out", r.out[i]>>]
                                      \o [i \in 1..Len(r.err) |-> <<"err", r.err[i]>>],
                        !.obs = @ \o r.obs,
                        !.rest = r.rest,
                        !.child = IF r.spawned THEN "running" ELSE @]
      timed == AddTime([task EXCEPT ![c] = tk1], c, r.dt)
      ended == r.stop \in {"return", "raise"}
      e1 == RunCodeError(r.exc, Text(cap_err[c]))
      e2 == ExecuteCodeSafelyError(e1)
      escapes == r.stop = "raise" /\ ~IsException(e2.kind)
      done == [timed[c] EXCEPT !.late = t > max_execution_time,
                               !.ended = IF r.stop = "return"
                                           THEN [how |-> "return", val |-> r.val]
                                           ELSE [how |-> "raise", exc |-> r.exc],
                               !.pc = IF escapes THEN "raised" ELSE "returned"]
  IN
  /\ stdout_capture' = cap_out
  /\ stderr_capture' = cap_err
  /\ real_stdout' = IF so.some THEN real_stdout ELSE real_stdout \o outs
  /\ real_stderr' = IF se.some THEN real_stderr ELSE real_stderr \o errs
  /\ sys_stdout' = IF ended THEN tk.old_stdout ELSE so
  /\ sys_stderr' = IF ended THEN tk.old_stderr ELSE se
  /\ task' = IF ended
              THEN [timed EXCEPT ![c] = done]
              ELSE [timed EXCEPT ![c].pc =
                      CASE r.stop = "await" -> "awaiting"
                        [] r.stop = "sleep" -> "sleeping"
                        [] OTHER -> "spinning"]
  /\ executions' =
       CASE r.stop = "return" ->
              PutExecution(exs, c, MarkCompleted(exs[c], ResultText(r.val), t))
         [] r.stop = "raise" /\ ~escapes ->
              PutExecution(exs, c, ExecuteWorkflowError(exs[c], e2, t))
         [] OTHER -> exs
  /\ ret' = CASE ~ended -> ret
             [] escapes -> [ret EXCEPT ![c] = [kind |-> e2.kind]]
             [] OTHER -> [ret EXCEPT ![c] =
                            [kind |-> "Execution", id |-> c, execution |-> executions'[c]]]

\* Variant: only the lookup is checked, not the status.
CheckWorkflow_NoReadyCheck(workflow) == IF ~workflow.some THEN "not found" ELSE "ok"

\* The two checks at the head of execute_workflow.
CheckWorkflow(workflow) ==
  IF ~workflow.some THEN "not found"
  ELSE IF workflow.v.status # "ready" THEN "not ready"
  ELSE "ok"

SyntaxError == Exc("SyntaxError", <<"invalid syntax">>)

\* What create_workflow stores: a ready workflow carries any of the sources.
WorkflowInputs ==
  {NewWorkflow(w, "ready", SourceText(name)) : w \in WorkflowIds, name \in Sources}
    \cup {NewWorkflow(w, st, SourceText("echo")) :
            w \in WorkflowIds, st \in WorkflowStatus \ {"ready"}}

\* Variant: the injected code is assigned to workflow.generated_code.
InjectedWorkflow_Assigned(workflow, code) == [workflow EXCEPT !.generated_code = code]

\* code = self._inject_api_keys(code) binds the parameter code of
\* _execute_code_safely to the new text; the Workflow object that
\* self.workflows holds keeps its generated_code.
InjectedWorkflow(workflow, code) == workflow

\* execute_workflow(workflow_id, user_input, attached_file_ids), from the
\* call to the first suspension of the run: the two checks, the record put
\* in self.executions, the environment, the injection, compile(), then the
\* first stretch of _run_code_with_capture under the redirected streams.
Call(c, w, user_input, files) ==
  /\ LoopFree
  /\ task[c].pc = "idle"
  /\ \A x \in CallIds : x < c => task[x].pc # "idle"
  /\ LET workflow == GetWorkflow(w)
         called == [task[c] EXCEPT
                      !.wf_status = IF workflow.some THEN Some(workflow.v.status) ELSE None]
     IN
     IF CheckWorkflow(workflow) # "ok"
       THEN /\ task' = [task EXCEPT ![c] = [called EXCEPT !.pc = "raised"]]
            /\ ret' = [ret EXCEPT ![c] =
                         [kind |-> "ValueError", msg |-> CheckWorkflow(workflow)]]
            /\ UNCHANGED <<workflows, executions, sys_stdout, sys_stderr, stdout_capture,
                           stderr_capture, real_stdout, real_stderr>>
       ELSE
         LET exs == PutExecution(executions, c, NewExecution(w, user_input))
             env == CreateExecutionEnvironment(files)
             code == InjectApiKeys(workflow.v.generated_code)
             src == Source(ProgramOf(code))
             tk == [called EXCEPT !.code = ProgramOf(code), !.env = env,
                                  !.globals = Globals(env, code),
                                  !.text = workflow.v.generated_code, !.injected = code,
                                  !.user_input = user_input, !.files = files]
         IN
         /\ workflows' = IF use_redis THEN workflows
                         ELSE [workflows EXCEPT ![w] = Some(InjectedWorkflow(workflow.v, code))]
         /\ IF ~src.syntax_ok
              THEN /\ executions' =
                        PutExecution(exs, c,
                          ExecuteWorkflowError(exs[c],
                            ExecuteCodeSafelyError(SyntaxError), 0))
                   /\ task' = [task EXCEPT ![c] =
                                 [tk EXCEPT !.pc = "returned",
                                    !.ended = [how |-> "raise", exc |-> SyntaxError]]]
                   /\ ret' = [ret EXCEPT ![c] =
                                [kind |-> "Execution", id |-> c, execution |-> executions'[c]]]
                   /\ UNCHANGED <<sys_stdout, sys_stderr, stdout_capture, stderr_capture,
                                  real_stdout, real_stderr>>
              ELSE Stretch(c, [tk EXCEPT !.old_stdout = sys_stdout, !.old_stderr = sys_stderr],
                           Some(c), Some(c), exs,
                           RunOps(Compiled(src), src, tk.globals, user_input, EmptyAcc))
  /\ UNCHANGED <<use_redis, redis, stored, history, validation,
                 generation, http, held>>

\* The awaited operation completes and the entry point runs on.
Resume(c) ==
  /\ LoopFree
  /\ task[c].pc = "awaiting"
  /\ Stretch(c, task[c], sys_stdout, sys_stderr, executions,
             RunOps(task[c].rest, Source(task[c].code), task[c].globals,
                    task[c].user_input, EmptyAcc))
  /\ UNCHANGED <<use_redis, workflows, redis, stored, history, validation,
                 generation, http, held>>

\* Variant: the timer of wait_for stays armed once the run has ended.
DeadlineArmed_AfterReturn(tk) == tk.pc \in {"awaiting", "sleeping", "returned"}

\* wait_for's timer can fire while the task it wraps is suspended; wait_for
\* cancels the timer when the task is done.
DeadlineArmed(tk) == tk.pc \in {"awaiting", "sleeping"}

\* asyncio.wait_for's deadline passes while the run is suspended: the run is
\* cancelled (CancelledError unwinds the with-blocks and is not an Exception),
\* wait_for raises TimeoutError, and execute_workflow records the timeout.
\* Only the task wait_for wraps is cancelled.
Timeout(c) ==
  /\ LoopFree
  /\ DeadlineArmed(task[c])
  /\ task[c].elapsed >= max_execution_time
  /\ sys_stdout' = task[c].old_stdout
  /\ sys_stderr' = task[c].old_stderr
  /\ executions' =
       PutExecution(executions, c,
         ExecuteWorkflowError(executions[c],
           ExecuteCodeSafelyError(Exc("TimeoutError", <<>>)), task[c].elapsed))
  /\ task' = [task EXCEPT ![c].pc = "returned", ![c].late = TRUE,
                          ![c].ended = [how |-> "deadline"]]
  /\ ret' = [ret EXCEPT ![c] =
               [kind |-> "Execution", id |-> c, execution |-> executions'[c]]]
  /\ UNCHANGED <<use_redis, workflows, redis, stored, history, stdout_capture,
                 stderr_capture, real_stdout, real_stderr, validation,
                 generation, http, held>>

\* The task the entry point created with asyncio.create_task runs: it is a
\* task of the event loop on its own, which wait_for does not cancel.  It
\* sleeps for longer than the budget (its timer is due after the
\* deadline's), then goes on with its work and ends.
Detached(c) ==
  /\ LoopFree
  /\ task[c].child = "running"
  /\ task[c].pc = "returned"
  /\ task' = [task EXCEPT ![c].child = "done"]
  /\ UNCHANGED <<use_redis, workflows, redis, stored, history, executions, ret,
                 sys_stdout, sys_stderr, stdout_capture, stderr_capture,
                 real_stdout, real_stderr, validation,
                 generation, http, held>>

\* Time passes while the event loop waits.
Tick ==
  /\ LoopFree
  /\ \E c \in CallIds : task[c].pc \in {"awaiting", "sleeping"} /\ task[c].elapsed < MaxElapsed
  /\ task' = [c \in CallIds |->
               IF task[c].pc \in {"awaiting", "sleeping"}
                 THEN [task[c] EXCEPT !.elapsed = Min(@ + 1, MaxElapsed)]
                 ELSE task[c]]
  /\ UNCHANGED <<use_redis, workflows, redis, stored, history, executions, ret,
                 sys_stdout, sys_stderr, stdout_capture, stderr_capture,
                 real_stdout, real_stderr, validation,
                 generation, http, held>>

Next ==
  \/ \E wf \in WorkflowInputs : CreateWorkflow(wf)
  \/ \E c \in CallIds, w \in WorkflowIds, ui \in UserInputs, f \in FileLists : Call(c, w, ui, f)
  \/ \E c \in CallIds : Resume(c)
  \/ \E c \in CallIds : Timeout(c)
  \/ \E c \in CallIds : Detached(c)
  \/ Tick

\* The runs of one process over a span shorter than the time to live of a
\* cache record.
Spec == Init /\ [][Next]_vars

\* The event loop keeps running what is ready: time passes, an awaited
\* operation completes, a due deadline fires.
FairSpec ==
  /\ Spec
  /\ WF_vars(Tick)
  /\ \A c \in CallIds : WF_vars(Resume(c)) /\ WF_vars(Timeout(c))

\* ----------------------------------------------------------- cancellation
\* The task that awaits execute_workflow is cancelled from outside while the
\* entry point is suspended (the client went away, the server shuts down):
\* wait_for cancels the task it wraps, CancelledError is raised at the await,
\* unwinds the two with-blocks (each restores the stream it saved) and, not
\* being an Exception, passes the handlers of _run_code_with_capture,
\* _execute_code_safely and execute_workflow.
Cancel(c) ==
  /\ LoopFree
  /\ task[c].pc \in {"awaiting", "sleeping"}
  /\ sys_stdout' = task[c].old_stdout
  /\ sys_stderr' = task[c].old_stderr
  /\ task' = [task EXCEPT ![c].pc = "raised", ![c].ended = [how |-> "cancel"]]
  /\ ret' = [ret EXCEPT ![c] = [kind |-> "CancelledError"]]
  /\ UNCHANGED <<use_redis, workflows, redis, stored, history, executions,
                 stdout_capture, stderr_capture, real_stdout, real_stderr, validation,
                 generation, http, held>>

\* What is stored in the scenarios of cancellation: a ready workflow whose
\* entry point awaits, sleeps or raises at once; it is called without
\* attached files.
CancelInputs ==
  {NewWorkflow(w, "ready", SourceText(name)) :
     w \in WorkflowIds, name \in {"echo", "sleep", "boom"}}

CancelNext ==
  \/ \E wf \in CancelInputs : CreateWorkflow(wf)
  \/ \E c \in CallIds, w \in WorkflowIds, ui \in UserInputs : Call(c, w, ui, None)
  \/ \E c \in CallIds : Resume(c)
  \/ \E c \in CallIds : Timeout(c)
  \/ \E c \in CallIds : Cancel(c)
  \/ Tick

\* The runs of one process whose callers may be cancelled.
CancelSpec == Init /\ [][CancelNext]_vars

\* The event loop keeps running what is ready; a cancellation may or may not
\* come.
CancelFairSpec ==
  /\ CancelSpec
  /\ WF_vars(Tick)
  /\ \A c \in CallIds : WF_vars(Resume(c)) /\ WF_vars(Timeout(c))

\* ------------------------------------------------------------------ store
\* The Workflows handed to store_workflow in the scenarios of the store.
Workflows ==
  [id : WorkflowIds,
   name : {None, Some(<<"report">>)},
   description : {<<"describe">>},
   generated_code : {SourceText("echo"), SourceText("doc")},
   status : WorkflowStatus,
   context : {None, Some([previous_error |-> <<"Previous attempt">>])},
   created_at : {None} \cup {Some(dt) : dt \in DateTimes},
   updated_at : {Some(dt) : dt \in DateTimes},
   error : {None, Some(<<"generation failed">>)}]

StoreNext ==
  \/ \E workflow \in Workflows : StoreWorkflow(workflow)
  \/ \E w \in WorkflowIds : Expire(w)

\* The store on its own: workflows are stored, stored again, and expire.
StoreSpec == Init /\ [][StoreNext]_vars

\* --------------------------------------------------------------- endpoint
\* POST /workflows/{workflow_id}/execute (main.py, execute_workflow): the
\* wait for the attached files to be indexed, in seconds.
max_wait_time == 60
poll_interval == 3

\* if request.attached_file_ids: (a list that is given and not empty)
Truthy(list) == list.some /\ Len(list.v) > 0

\* validate_lighton_api_key: raises HTTPException(503) when the key is not
\* configured, returns True otherwise.
ValidateLightonApiKey(key) ==
  IF key = <<>> THEN [kind |-> "HTTPException", status_code |-> 503]
  ELSE [kind |-> "True"]

\* What workflow_executor.execute_workflow gives the endpoint.
ExecutorOutcomes ==
  {[kind |-> "Execution", id |-> 1],
   [kind |-> "ValueError", msg |-> "not found"],
   [kind |-> "ValueError", msg |-> "not ready"],
   [kind |-> "CancelledError"]}

\* settings.lighton_api_key (config.py): empty when LIGHTON_API_KEY is not set.
KeySettings == {<<>>, lighton_api_key}

\* A request arrives.
Receive(files, key) ==
  /\ http.pc = "idle"
  /\ http' = [http EXCEPT !.pc = "received", !.files = files, !.key = key]
  /\ UNCHANGED <<use_redis, workflows, redis, stored, history, held, executions, task,
                 ret, sys_stdout, sys_stderr, stdout_capture, stderr_capture,
                 real_stdout, real_stderr, validation, generation>>

\* The head of the try block: with files attached the key is validated, and
\* the HTTPException it raises is caught, as any Exception that is not a
\* ValueError, by the last handler of the endpoint.
VerifyFiles ==
  /\ http.pc = "received"
  /\ http' =
       IF ~Truthy(http.files) THEN [http EXCEPT !.pc = "executing"]
       ELSE IF ValidateLightonApiKey(http.key).kind = "HTTPException"
         THEN [http EXCEPT !.pc = "done",
                 !.response = Some(ExecuteEndpoint(ValidateLightonApiKey(http.key)))]
       ELSE [http EXCEPT !.pc = "polling"]
  /\ UNCHANGED <<use_redis, workflows, redis, stored, history, held, executions, task,
                 ret, sys_stdout, sys_stderr, stdout_capture, stderr_capture,
                 real_stdout, real_stderr, validation, generation>>

\* One turn of the while loop: every file is asked for its status; when all
\* are ready the loop is left, else the endpoint sleeps poll_interval and the
\* loop ends once max_wait_time is reached.
Poll(all_ready) ==
  /\ http.pc = "polling"
  /\ http.elapsed_time < max_wait_time
  /\ http' =
       IF all_ready THEN [http EXCEPT !.pc = "executing", !.all_ready = TRUE]
       ELSE [http EXCEPT !.elapsed_time = @ + poll_interval,
               !.pc = IF http.elapsed_time + poll_interval < max_wait_time
                        THEN "polling" ELSE "executing"]
  /\ UNCHANGED <<use_redis, workflows, redis, stored, history, held, executions, task,
                 ret, sys_stdout, sys_stderr, stdout_capture, stderr_capture,
                 real_stdout, real_stderr, validation, generation>>

\* The executor is called and the endpoint answers with what it gave.
Execute(r) ==
  /\ http.pc = "executing"
  /\ http' = [http EXCEPT !.pc = "done", !.executor_called = TRUE,
                          !.response = Some(ExecuteEndpoint(r))]
  /\ UNCHANGED <<use_redis, workflows, redis, stored, history, held, executions, task,
                 ret, sys_stdout, sys_stderr, stdout_capture, stderr_capture,
                 real_stdout, real_stderr, validation, generation>>

EndpointNext ==
  \/ \E files \in FileLists, key \in KeySettings : Receive(files, key)
  \/ VerifyFiles
  \/ \E all_ready \in BOOLEAN : Poll(all_ready)
  \/ \E r \in ExecutorOutcomes : Execute(r)

\* One request to the endpoint, from its arrival to the answer.
EndpointSpec == Init /\ [][EndpointNext]_vars

\* ---------------------------------------------------- caller-held objects
\* workflow.<field> = value
SetAttr(workflow, field, value) == [workflow EXCEPT ![field] = value]

\* The assignments a holder of a Workflow object makes in the scenarios.
Mutations ==
  {<<"status", st>> : st \in WorkflowStatus}
    \cup {<<"generated_code", SourceText("doc")>>, <<"error", Some(<<"generation failed">>)>>}

\* The code that passed a Workflow object to store_workflow assigns to one of
\* its attributes.  The in-memory backend holds that very object
\* (self.workflows[workflow.id] = workflow) and get_workflow returns it; the
\* cache holds the JSON text written when the object was stored.
MutateWorkflow(w, field, value) ==
  /\ LoopFree
  /\ held[w].some
  /\ held[w].v[field] # value
  /\ held' = [held EXCEPT ![w] = Some(SetAttr(@.v, field, value))]
  /\ workflows' = IF use_redis THEN workflows ELSE [workflows EXCEPT ![w] = held'[w]]
  /\ UNCHANGED <<use_redis, redis, stored, history, executions, task, ret, sys_stdout,
                 sys_stderr, stdout_capture, stderr_capture, real_stdout,
                 real_stderr, validation, generation, http>>

\* The Workflows stored in these scenarios, as generate_workflow makes them.
MutationWorkflows ==
  {NewWorkflow(w, st, SourceText(name)) :
     w \in WorkflowIds, st \in WorkflowStatus, name \in {"echo", "doc"}}

MutationNext ==
  \/ \E workflow \in MutationWorkflows : StoreWorkflow(workflow)
  \/ \E w \in WorkflowIds, m \in Mutations : MutateWorkflow(w, m[1], m[2])

\* The store and the holders of the objects stored in it.
MutationSpec == Init /\ [][MutationNext]_vars

\* -------------------------------------------------------------- validator
\* Number of lines of a source given to the validator.
MaxLines == 3

\* The lines a source is made of, as tokens.  The entry point defined with a
\* blank before the parenthesis is the same function to Python.
ImportAsyncio == <<"import asyncio">>
ImportAiohttp == <<"import aiohttp">>
AsyncDef == <<"async ", "def execute_workflow(", "user_input):", "pass">>
SyncDef == <<"def execute_workflow(", "user_input):", "pass">>
AsyncDefSpaced == <<"async ", "def execute_workflow (", "user_input):", "pass">>
CommentedDef == <<Hash, "async ", "def execute_workflow(", "user_input):", "pass">>
BadLine == <<"def (">>

LineKinds ==
  {ImportAsyncio, ImportAiohttp, AsyncDef, SyncDef, AsyncDefSpaced, CommentedDef, BadLine}

RECURSIVE SeqsUpTo(_, _)
SeqsUpTo(S, n) ==
  IF n = 0 THEN {<<>>}
  ELSE LET shorter == SeqsUpTo(S, n - 1)
       IN shorter \cup {Append(q, x) : q \in {r \in shorter : Len(r) = n - 1}, x \in S}

\* The sources given to the validator, each a sequence of lines.
ValidatorCodes == SeqsUpTo(LineKinds, MaxLines)

\* The text of a sequence of lines.
RECURSIVE Join(_)
Join(ls) == IF ls = <<>> THEN <<>> ELSE Head(ls) \o <<NL>> \o Join(Tail(ls))

\* What Python makes of the lines: compile() accepts them; the statements
\* that define execute_workflow (a comment defines nothing), the last of
\* which is the binding; the modules imported.
Parses(ls) == \A i \in 1..Len(ls) : ls[i] # BadLine

IsDef(line) ==
  \/ line[1] \in {"def execute_workflow(", "def execute_workflow ("}
  \/ line[1] = "async " /\ line[2] \in {"def execute_workflow(", "def execute_workflow ("}

DefinesEntryPoint(ls) == \E i \in 1..Len(ls) : IsDef(ls[i])

EntryPointIsAsync(ls) ==
  LET defs == {i \in 1..Len(ls) : IsDef(ls[i])}
      last == CHOOSE i \in defs : \A j \in defs : j <= i
  IN ls[last][1] = "async "

Imports(ls, line) == \E i \in 1..Len(ls) : ls[i] = line

Verdict(valid, error) == [valid |-> valid, error |-> error]

\* _validate_code: compile(), then the tests of the text for
\* 'def execute_workflow(', 'async def execute_workflow(' and the two imports.
ValidateCode(ls) ==
  LET code == Join(ls)
  IN IF ~Parses(ls) THEN Verdict(FALSE, "Syntax error")
     ELSE IF ~Contains(code, <<"def execute_workflow(">>)
       THEN Verdict(FALSE, "Missing execute_workflow function")
     ELSE IF ~Contains(code, <<"async ", "def execute_workflow(">>)
       THEN Verdict(FALSE, "execute_workflow must be async")
     ELSE IF ~Contains(code, <<"import asyncio">>)
       THEN Verdict(FALSE, "Missing required import: import asyncio")
     ELSE IF ~Contains(code, <<"import aiohttp">>)
       THEN Verdict(FALSE, "Missing required import: import aiohttp")
     ELSE Verdict(TRUE, "none")

Pending == Verdict(FALSE, "pending")

ValidatorInit ==
  /\ ExecutorInit
  /\ validation \in [code : ValidatorCodes, verdict : {Pending}]
  /\ generation = NoGeneration
  /\ http = NoRequest

\* One call of _validate_code returns.
Validate ==
  /\ validation.verdict = Pending
  /\ validation' = [validation EXCEPT !.verdict = ValidateCode(validation.code)]
  /\ UNCHANGED <<use_redis, workflows, redis, stored, history, executions, task, ret,
                 sys_stdout, sys_stderr, stdout_capture, stderr_capture, real_stdout,
                 real_stderr,
                 generation, http, held>>

ValidatorNext == Validate

\* The validator on its own, over every source of the bounded set.
ValidatorSpec == ValidatorInit /\ [][ValidatorNext]_vars

\* -------------------------------------------------------------- generator
\* generate_workflow (generator.py): max_retries attempts, each a call of
\* _generate_code followed by _validate_code.
max_retries == 3

\* str.lower() of the tokens of a message.
Lower(token) ==
  CASE token = "Validation Failed" -> "validation failed"
    [] token = "Overloaded" -> "overloaded"
    [] token = "Request " -> "request "
    [] token = "Code generation failed: " -> "code generation failed: "
    [] token = "Generated code " -> "generated code "
    [] OTHER -> token

LowerText(text) == [i \in 1..Len(text) |-> Lower(text[i])]

\* "validation failed" in str(e).lower()
MentionsValidationFailed(msg) == Contains(LowerText(msg), <<"validation failed">>)

\* The message of the exception raised when the last attempt is not valid.
ValidationFailedMsg(last_error) ==
  <<"Generated code ", "validation failed", " after ", "3", " attempts: ", last_error>>

\* context['previous_error'] of the next attempt.
PreviousError(last_error) == <<"Previous attempt had syntax error: ", last_error>>

\* What one call of _generate_code gives: a source (as its lines), or the
\* exception it raises, "Code generation failed: " and the message of the
\* error of the API client.
GeneratedCodes ==
  {<<ImportAsyncio, ImportAiohttp, AsyncDef>>,
   <<ImportAsyncio, AsyncDef>>,
   <<ImportAsyncio, ImportAiohttp, CommentedDef>>,
   <<BadLine>>}

ApiErrors ==
  {<<"Code generation failed: ", "Overloaded">>,
   <<"Code generation failed: ", "Request ", "Validation Failed">>}

GenerateCodeOutcomes ==
  {[kind |-> "code", code |-> ls] : ls \in GeneratedCodes}
    \cup {[kind |-> "error", msg |-> m] : m \in ApiErrors}

\* The context argument of generate_workflow: None or a dict.
EmptyDict == <<>>
Contexts == {None, Some(EmptyDict)}

DictSet(dict, key, value) ==
  [k \in DOMAIN dict \cup {key} |-> IF k = key THEN value ELSE dict[k]]

\* Workflow(name=, description=, context=): status created, no code, no error.
CreatedWorkflow == [status |-> "created", generated_code |-> None, error |-> None]

\* Workflow.update_status(status, error): the status, and the error when one
\* is given.
UpdateStatus(workflow, status, error) ==
  [workflow EXCEPT !.status = status, !.error = IF error.some THEN error ELSE @]

\* Variant: every generated source is taken.
Accepted_Any(validation_result) == TRUE

\* if validation_result["valid"]:
Accepted(validation_result) == validation_result.valid

\* The exception e leaves the loop: the outer handler marks the Workflow
\* failed with str(e) and raises e again.
GenerationRaises(g, msg, entry) ==
  [g EXCEPT !.pc = "raised", !.raised = Some(msg),
            !.workflow = Some(UpdateStatus(@.v, "failed", Some(msg))),
            !.log = Append(@, entry)]

\* One turn of the for loop, given what _generate_code gave.
GenerateAttempt(g, outcome) ==
  LET entry == [context |-> g.context, kind |-> outcome.kind]
      last == g.attempt >= max_retries - 1
  IN IF outcome.kind = "code"
       THEN LET validation_result == ValidateCode(outcome.code)
                tried == [entry EXCEPT !.kind = IF validation_result.valid THEN "valid" ELSE "invalid"]
                logged == [context |-> tried.context, kind |-> tried.kind,
                           code |-> outcome.code, error |-> validation_result.error]
            IN IF Accepted(validation_result)
                 THEN [g EXCEPT !.pc = "returned",
                         !.workflow = Some(UpdateStatus(
                            SetAttr(@.v, "generated_code", Some(outcome.code)), "ready", None)),
                         !.log = Append(@, logged)]
               ELSE IF ~last
                 THEN [g EXCEPT !.last_error = Some(validation_result.error),
                         !.context = Some(DictSet(IF @.some THEN @.v ELSE EmptyDict,
                                                  "previous_error",
                                                  PreviousError(validation_result.error))),
                         !.attempt = @ + 1,
                         !.log = Append(@, logged)]
               ELSE GenerationRaises([g EXCEPT !.last_error = Some(validation_result.error)],
                                     ValidationFailedMsg(validation_result.error), logged)
       ELSE LET logged == [context |-> entry.context, kind |-> "error",
                           code |-> <<>>, error |-> outcome.msg]
            IN IF MentionsValidationFailed(outcome.msg)
                 THEN GenerationRaises(g, outcome.msg, logged)
               ELSE IF ~last
                 THEN [g EXCEPT !.last_error = Some(outcome.msg), !.attempt = @ + 1,
                                !.log = Append(@, logged)]
               ELSE GenerationRaises([g EXCEPT !.last_error = Some(outcome.msg)],
                                     outcome.msg, logged)

\* generate_workflow(description, name, context) is called: the Workflow is
\* constructed.
GenerateWorkflow(context) ==
  /\ generation.pc = "idle"
  /\ generation' = [generation EXCEPT !.pc = "created", !.context = context,
                                      !.workflow = Some(CreatedWorkflow)]
  /\ UNCHANGED <<use_redis, workflows, redis, stored, history, held, executions, task,
                 ret, sys_stdout, sys_stderr, stdout_capture, stderr_capture,
                 real_stdout, real_stderr, validation, http>>

\* workflow.update_status("generating")
BeginGenerating ==
  /\ generation.pc = "created"
  /\ generation' = [generation EXCEPT !.pc = "attempting",
                      !.workflow = Some(UpdateStatus(@.v, "generating", None))]
  /\ UNCHANGED <<use_redis, workflows, redis, stored, history, held, executions, task,
                 ret, sys_stdout, sys_stderr, stdout_capture, stderr_capture,
                 real_stdout, real_stderr, validation, http>>

\* One attempt.
Attempt(outcome) ==
  /\ generation.pc = "attempting"
  /\ generation.attempt < max_retries
  /\ generation' = GenerateAttempt(generation, outcome)
  /\ UNCHANGED <<use_redis, workflows, redis, stored, history, held, executions, task,
                 ret, sys_stdout, sys_stderr, stdout_capture, stderr_capture,
                 real_stdout, real_stderr, validation, http>>

GeneratorNext ==
  \/ \E context \in Contexts : GenerateWorkflow(context)
  \/ BeginGenerating
  \/ \E outcome \in GenerateCodeOutcomes : Attempt(outcome)

\* One call of generate_workflow.
GeneratorSpec == Init /\ [][GeneratorNext]_vars

\* ------------------------------------------------------------- properties
Returned(c) == ret[c].kind = "Execution"

Terminal == {"completed", "failed", "timeout"}

\* The texts run c wrote to one stream ("out" or "err"), in order.
WrittenTo(c, stream) ==
  LET sel == SelectSeq(task[c].written, LAMBDA x : x[1] = stream)
  IN [i \in 1..Len(sel) |-> sel[i][2]]

\* The source compiles and its top level runs to its end.
TopLevelRuns(src) ==
  src.syntax_ok /\ \A i \in 1..Len(src.top) : src.top[i].op \in {"emit", "work"}

\* C1: every call of execute_workflow that returns an Execution returns it in
\* a terminal status (completed, failed or timeout), never running, whatever
\* the source did.
C1_TerminalOnReturn ==
  \A c \in CallIds :
    Returned(c) => c \in DOMAIN executions /\ executions[c].status \in Terminal

\* Two calls have returned, one after the deadline passed on its suspended
\* entry point and one after its entry point finished.
C1_Witness ==
  \E c, d \in CallIds :
    /\ Returned(c) /\ task[c].ended.how = "deadline"
    /\ Returned(d) /\ task[d].ended.how = "return"

\* C2: when the budget max_execution_time elapses before the entry point
\* finishes, the returned Execution has status timeout, the fixed message as
\* its error, and its execution_time recorded.
C2_TimeoutWhenBudgetElapsed ==
  \A c \in CallIds :
    Returned(c) /\ task[c].late =>
      /\ executions[c].status = "timeout"
      /\ executions[c].error = Some(TimeoutMsg)
      /\ executions[c].execution_time.some

\* C3: a call whose entry point never returns on its own (it sleeps, or it
\* loops forever) eventually returns an Execution with status timeout.
C3_NeverReturningTimesOut ==
  \A c \in CallIds :
    (task[c].pc \in {"sleeping", "spinning"})
      ~> (Returned(c) /\ executions[c].status = "timeout")

C5_RejectedBeforeSandbox ==
  /\ \A c \in CallIds :
       task[c].pc # "idle" /\ task[c].wf_status # Some("ready") =>
         /\ ret[c].kind = "ValueError"
         /\ ret[c].msg = (IF task[c].wf_status.some THEN "not ready" ELSE "not found")
         /\ c \notin DOMAIN executions
         /\ task[c].code = "" /\ task[c].ended.how = "no"
         /\ task[c].written = <<>> /\ task[c].obs = <<>>
         /\ stdout_capture[c] = <<>> /\ stderr_capture[c] = <<>>
  /\ \A id \in DOMAIN executions : task[id].wf_status = Some("ready")

\* One call found no workflow and a later one found it stored but not ready.
C5_Witness ==
  \E c, d \in CallIds :
    /\ ret[c].kind = "ValueError" /\ ret[c].msg = "not found"
    /\ ret[d].kind = "ValueError" /\ ret[d].msg = "not ready"

\* C6: an entry point that returns v within the budget gives a completed
\* Execution whose result is the text of v (empty when v is None), with no
\* error and with execution_time recorded; "ok:" + user_input with "42" gives
\* "ok:42".
C6_CompletedWithResult ==
  \A c \in CallIds :
    (task[c].ended.how = "return" /\ ~task[c].late) =>
      /\ Returned(c)
      /\ executions[c].status = "completed"
      /\ executions[c].result =
           (IF task[c].ended.val.some THEN Some(task[c].ended.val.v) ELSE Some(<<>>))
      /\ executions[c].error = None
      /\ executions[c].execution_time.some
      /\ (task[c].code = "echo" /\ task[c].user_input = <<"42">>) =>
           executions[c].result = Some(<<"ok:", "42">>)

\* A run whose entry point returned None has completed with the empty text.
C6_Witness ==
  \E c \in CallIds :
    /\ Returned(c) /\ task[c].ended = [how |-> "return", val |-> None]
    /\ ~task[c].late
    /\ executions[c].status = "completed" /\ executions[c].result = Some(<<>>)

\* C7: when compile, the top level or the entry point raises an error (not the
\* expiry of the deadline), the Execution is failed, its error contains the
\* error's message and its result is not set.
C7_FailedWithMessage ==
  \A c \in CallIds :
    (task[c].ended.how = "raise") =>
      /\ Returned(c)
      /\ executions[c].status = "failed"
      /\ executions[c].error.some
      /\ Contains(executions[c].error.v, task[c].ended.exc.msg)
      /\ executions[c].result = None

\* C8: when the top level has run and bound no execute_workflow, the run ends
\* failed with the entry-point-not-found message; it neither completes with an
\* empty result nor stays in flight.
C8_EntryPointNotFound ==
  \A c \in CallIds :
    (task[c].code # "" /\ TopLevelRuns(Source(task[c].code))
       /\ ~Source(task[c].code).defines) =>
      /\ Returned(c)
      /\ executions[c].status = "failed"
      /\ executions[c].error.some
      /\ Contains(executions[c].error.v, EntryNotFoundMsg)
      /\ executions[c].result = None

\* A run of the source without entry point has ended, with the captured
\* stderr of its top level in the error.
C8_Witness ==
  \E c \in CallIds :
    /\ task[c].code = "no_entry" /\ Returned(c)
    /\ Contains(executions[c].error.v, <<"warn">>)

\* C9 (as stated): whenever attached_file_ids is given (the empty list
\* included) the entry point sees exactly that list under both names
\* attached_file_ids and ATTACHED_FILES; when it is not given neither name is
\* bound.
C9_AttachedFilesSeen ==
  \A c \in CallIds :
    (task[c].code = "files" /\ task[c].pc # "idle") =>
      IF task[c].files.some
        THEN task[c].obs = << <<"attached_file_ids", task[c].files.v>>,
                               <<"ATTACHED_FILES", task[c].files.v>> >>
        ELSE task[c].obs = <<>> /\ DOMAIN task[c].env = {}

\* C9 (amended): whenever a non-empty attached_file_ids is given, the run's
\* globals bind both names to that list and the entry point sees exactly that
\* list, same elements in the same order, under both names; when it is not
\* given, or is empty, neither name is bound.
C9_Amended ==
  \A c \in CallIds :
    task[c].code # "" /\ Source(task[c].code).syntax_ok =>
      IF task[c].files.some /\ task[c].files.v # <<>>
        THEN /\ DOMAIN task[c].env = {"attached_file_ids", "ATTACHED_FILES"}
             /\ task[c].env.attached_file_ids = task[c].files.v
             /\ task[c].env.ATTACHED_FILES = task[c].files.v
             /\ task[c].code = "files" =>
                  task[c].obs = << <<"attached_file_ids", task[c].files.v>>,
                                   <<"ATTACHED_FILES", task[c].files.v>> >>
        ELSE /\ DOMAIN task[c].env = {}
             /\ task[c].obs = <<>>

\* An entry point has read both names in a run given the list 7, 9.
C9_Witness ==
  \E c \in CallIds :
    /\ task[c].files = Some(<<7, 9>>)
    /\ task[c].obs = << <<"attached_file_ids", <<7, 9>> >>, <<"ATTACHED_FILES", <<7, 9>> >> >>

\* C10: with executions in flight together, what a run writes to stdout and
\* stderr is in its own buffers, all of it and in order, and none of it is in
\* another run's buffers or on the process's own streams.
C10_OutputCapturedPerRun ==
  /\ \A c \in CallIds :
       /\ stdout_capture[c] = Tagged(c, WrittenTo(c, "out"))
       /\ stderr_capture[c] = Tagged(c, WrittenTo(c, "err"))
  /\ real_stdout = <<>>
  /\ real_stderr = <<>>

\* An Execution of call c is marked timeout.
MarkedTimeout(c) == c \in DOMAIN executions /\ executions[c].status = "timeout"

\* C11: from the moment the Execution is marked timeout its entry point takes
\* no further step (it writes and reads nothing more) and no task its run
\* created is still running or runs.
C11_NoStepAfterTimeout ==
  [][\A c \in CallIds :
       MarkedTimeout(c) =>
         /\ task[c].child # "running"
         /\ task'[c].child = task[c].child
         /\ task'[c].written = task[c].written
         /\ task'[c].obs = task[c].obs]_vars

\* C12: whatever calls of execute_workflow were made, the stored Workflow is
\* the one that was stored, field for field: its generated_code holds the
\* placeholder assignment and none of the configured secrets, its status is
\* the stored one; the injected text exists only as the local copy of a call.
C12_StoredWorkflowUntouched ==
  \A w \in WorkflowIds :
    stored[w].some =>
      LET workflow == GetWorkflow(w) IN
      /\ workflow = stored[w]
      /\ ~use_redis => workflows[w] = stored[w]
      /\ use_redis => redis[w] = Some(JsonDumps(WorkflowDict(stored[w].v)))
      /\ Contains(workflow.v.generated_code,
                  Assignment("LIGHTON_API_KEY", Placeholder("LIGHTON_API_KEY")))
      /\ ~Contains(workflow.v.generated_code, lighton_api_key)
      /\ ~Contains(workflow.v.generated_code, anthropic_api_key)

\* Two calls have returned for the in-memory workflow, each with a local copy
\* that holds the key where the stored text holds the placeholder.
C12_Witness ==
  /\ ~use_redis
  /\ \A c \in {1, 2} :
       /\ Returned(c)
       /\ Contains(task[c].injected, Assignment("LIGHTON_API_KEY", lighton_api_key))
       /\ task[c].injected # task[c].text

\* C13: the result and the error of a returned Execution never contain the
\* LightOn or the Anthropic API key, whatever the source returns, raises or
\* prints.
C13_NoSecretInExecution ==
  \A c \in CallIds :
    Returned(c) =>
      \A secret \in {lighton_api_key, anthropic_api_key} :
        /\ executions[c].result.some => ~Contains(executions[c].result.v, secret)
        /\ executions[c].error.some => ~Contains(executions[c].error.v, secret)

\* A line that is a documented placeholder assignment, and its constant.
IsPlaceholderAssignment(line) ==
  \E name \in ConstantNames : line = Assignment(name, Placeholder(name))

ConstantOf(line) == CHOOSE name \in ConstantNames : line[1] = Assign(name)

\* C14: after _inject_api_keys every documented placeholder assignment of the
\* source assigns the configured value (the constant evaluates to exactly
\* it), and every other line, a string literal or a comment that shows the
\* placeholder included, is as it was.
C14_InjectionExact ==
  \A c \in CallIds :
    task[c].code # "" =>
      LET before == Lines(task[c].text, <<>>)
          after == Lines(task[c].injected, <<>>)
      IN /\ Len(after) = Len(before)
         /\ \A i \in 1..Len(before) :
              IF IsPlaceholderAssignment(before[i])
                THEN /\ after[i] = Assignment(ConstantOf(before[i]),
                                              Configured(ConstantOf(before[i])))
                     /\ Constants(task[c].injected)[ConstantOf(before[i])]
                          = Configured(ConstantOf(before[i]))
                ELSE after[i] = before[i]

C16_AbsentWorkflow ==
  \A w \in WorkflowIds :
    (~stored[w].some \/ history[w].expired) =>
      /\ GetWorkflow(w) = None
      /\ GetWorkflowEndpoint(w) = [status_code |-> 404]

\* The record of a stored Workflow has expired.
C16_Witness ==
  \E w \in WorkflowIds :
    stored[w].some /\ history[w].expired /\ GetWorkflow(w) = None

\* The verdict the decision order gives for what the source is to Python.
ExpectedVerdict(ls) ==
  IF ~Parses(ls) THEN Verdict(FALSE, "Syntax error")
  ELSE IF ~DefinesEntryPoint(ls) THEN Verdict(FALSE, "Missing execute_workflow function")
  ELSE IF ~EntryPointIsAsync(ls) THEN Verdict(FALSE, "execute_workflow must be async")
  ELSE IF ~Imports(ls, ImportAsyncio)
    THEN Verdict(FALSE, "Missing required import: import asyncio")
  ELSE IF ~Imports(ls, ImportAiohttp)
    THEN Verdict(FALSE, "Missing required import: import aiohttp")
  ELSE Verdict(TRUE, "none")

\* C17: the verdict of the validator follows the decision order: a source
\* that does not parse is a syntax error; else one that defines no
\* execute_workflow misses the entry point; else one whose entry point is
\* not async is rejected for that; else one without import asyncio or import
\* aiohttp misses an import; else, and only then, it is valid.
C17_ValidatorDecisionOrder ==
  validation.verdict # Pending /\ validation # NoValidation =>
    validation.verdict = ExpectedVerdict(validation.code)

\* C18: an Execution that was returned is what get_execution gives for its
\* id from then on, with the workflow_id, status, result, error and
\* execution_time the caller got; an id never issued gives None.
C18_ExecutionRetrievable ==
  /\ \A c \in CallIds :
       Returned(c) =>
         /\ GetExecution(ret[c].id) = Some(ret[c].execution)
         /\ ret[c].execution.status \in Terminal
         /\ ret[c].execution.workflow_id \in WorkflowIds
  /\ \A c \in CallIds :
       (task[c].pc = "idle" \/ ret[c].kind = "ValueError") => GetExecution(c) = None
  /\ GetExecution(0) = None

\* The first call returned a completed Execution, and a second call has run
\* to its end since.
C18_Witness ==
  /\ Returned(1) /\ ret[1].execution.status = "completed"
  /\ task[1].ended.how = "return" /\ ret[1].execution.result.some
  /\ Returned(2)

\* The run of a program alone, every awaited operation completing: it ends
\* with an Execution when it returns, raises an Exception or sleeps (until
\* the deadline), and does not when it loops or raises past the handlers.
RECURSIVE EndsAlone(_, _, _, _)
EndsAlone(ops, src, globals, user_input) ==
  LET r == RunOps(ops, src, globals, user_input, EmptyAcc)
  IN CASE r.stop = "await" -> EndsAlone(r.rest, src, globals, user_input)
       [] r.stop = "spin" -> FALSE
       [] r.stop = "raise" -> IsException(r.exc.kind)
       [] OTHER -> TRUE

\* Call c has started a run which, had it been the only call, would end with
\* an Execution.
WouldEndAlone(c) ==
  /\ task[c].code # ""
  /\ Source(task[c].code).syntax_ok =>
       EndsAlone(Compiled(Source(task[c].code)), Source(task[c].code),
                 task[c].globals, task[c].user_input)

\* C19: each of the calls made together for a ready workflow ends as it
\* would have ended alone: with an Execution of its own in a terminal status,
\* with the user_input of that call and the result of its own entry point.
C19_ConcurrentIndependent ==
  \A c \in CallIds :
    WouldEndAlone(c)
      ~> (/\ Returned(c)
          /\ executions[c].status \in Terminal
          /\ executions[c].user_input = task[c].user_input
          /\ task[c].ended.how = "return" =>
               executions[c].result = Some(ResultText(task[c].ended.val)))

\* C20: POST /workflows/{id}/execute for an id that is not there answers 404
\* and leaves no Execution.
C20_ExecuteUnknownIs404 ==
  \A c \in CallIds :
    (ret[c].kind = "ValueError" /\ ret[c].msg = "not found") =>
      /\ ExecuteEndpoint(ret[c]).status_code = 404
      /\ c \notin DOMAIN executions

\* C21: an Execution has status timeout only when the deadline of
\* max_execution_time has elapsed on its call; an entry point that itself
\* raises a timeout-type error before the deadline gives status failed.
C21_TimeoutOnlyAtDeadline ==
  \A c \in CallIds :
    Returned(c) =>
      /\ executions[c].status = "timeout" =>
           /\ task[c].ended.how = "deadline"
           /\ executions[c].execution_time.v >= max_execution_time
      /\ (task[c].ended.how = "raise" /\ task[c].ended.exc.kind = "TimeoutError"
            /\ ~task[c].late) =>
           executions[c].status = "failed"

C23_RunningRecordVisible ==
  \A c \in CallIds :
    InFlight(c) =>
      /\ GetExecution(c).some
      /\ GetExecution(c).v.status = "running"
      /\ GetExecution(c).v.user_input = task[c].user_input
      /\ GetExecution(c).v.workflow_id \in WorkflowIds
      /\ GetExecution(c).v.result = None
      /\ GetExecution(c).v.error = None
      /\ GetExecution(c).v.execution_time = None

\* Two calls are suspended inside their entry points, and the record of each
\* is in the map.
C23_Witness ==
  /\ \A c \in {1, 2} : task[c].pc = "awaiting" /\ GetExecution(c).some
  /\ task[1].written # <<>>

\* C27: once no execution is in flight, whatever the order in which the
\* executions started and ended, sys.stdout and sys.stderr are the process's
\* own streams again; no capture buffer of a run is left installed.
C27_StreamsRestored ==
  (\A c \in CallIds : ~InFlight(c)) => sys_stdout = None /\ sys_stderr = None

\* C29: a source the validator accepts binds execute_workflow when its top
\* level is executed, so the lookup of the entry point by the engine succeeds
\* for it and the entry-point-not-found failure cannot happen.
C29_ValidSourceDefinesEntry ==
  validation.verdict.valid =>
    LET src == [defines |-> DefinesEntryPoint(validation.code)]
    IN DefinesEntryPoint(validation.code) /\ HasEntryPoint(src)

\* The caller of call c was cancelled while the entry point was suspended.
CancelledFromOutside(c) == task[c].ended.how = "cancel"

\* C28: the Execution record of a call whose awaiting task is cancelled from
\* outside while the entry point is suspended eventually reaches a terminal
\* status, as every record does; it does not stay running forever.
C28_CancelledRecordEnds ==
  \A c \in CallIds :
    (c \in DOMAIN executions /\ CancelledFromOutside(c))
      ~> (c \in DOMAIN executions /\ executions[c].status \in Terminal)

\* What get_workflow of the durable backend gives for a Workflow stored
\* under its id: the object built from the JSON text written by
\* store_workflow.
DurableView(workflow) == WorkflowFromDict(JsonLoads(JsonDumps(WorkflowDict(workflow))))

\* C30: with either backend get_workflow gives what the durable backend gives
\* for the same calls: the Workflow as it was at the last store_workflow.  An
\* assignment to the object after it was stored is seen neither by
\* get_workflow nor by the checks of a later execute_workflow.
C30_BackendsEquivalent ==
  \A w \in WorkflowIds :
    stored[w].some =>
      /\ GetWorkflow(w) = Some(DurableView(stored[w].v))
      /\ CheckWorkflow(GetWorkflow(w)) = CheckWorkflow(stored[w])

\* C26: POST /workflows/{id}/execute with a non-empty attached_file_ids and
\* no LightOn API key configured is answered with 503, the status of the
\* HTTPException validate_lighton_api_key raises, and the executor is not
\* called.
C26_MissingKeyIs503 ==
  (http.pc = "done" /\ Truthy(http.files) /\ http.key = <<>>) =>
    /\ http.response.v.status_code = 503
    /\ ~http.executor_called

\* C24: generate_workflow makes at most 3 attempts; it returns at the first
\* attempt whose code is valid; after an attempt that is not valid the next
\* one is given that validation error in its context; an attempt that fails
\* for another reason is followed by a next attempt while attempts remain;
\* and the call raises when, and only when, the third attempt has failed.
C24_RetryPolicy ==
  LET log == generation.log
  IN /\ Len(log) <= max_retries
     /\ \A i \in 1..Len(log) :
          /\ log[i].kind = "valid" => i = Len(log) /\ generation.pc = "returned"
          /\ (log[i].kind = "invalid" /\ i < Len(log)) =>
               /\ log[i + 1].context.some
               /\ "previous_error" \in DOMAIN log[i + 1].context.v
               /\ Contains(log[i + 1].context.v.previous_error, <<log[i].error>>)
          /\ (log[i].kind # "valid" /\ i < max_retries) =>
               generation.pc = "attempting" \/ i < Len(log)
     /\ generation.pc = "returned" => Len(log) >= 1 /\ log[Len(log)].kind = "valid"
     /\ generation.pc = "raised" =>
          Len(log) = max_retries /\ log[max_retries].kind # "valid"
     /\ (Len(log) = max_retries /\ log[max_retries].kind # "valid") =>
          generation.pc = "raised"

====
